---------------------------- MODULE Spec2Model ----------------------------
(***************************************************************************)
(* A model of retail3.py: the RetailAnalyzer session object (its Dataset   *)
(* `df` and its Metrics Snapshot `metrics`), its four operations           *)
(* load_data, calculate_metrics, display_summary and filter_data, and the  *)
(* menu loop of main().                                                    *)
(*                                                                         *)
(* Text is modelled as a sequence of character codes, so that parsing,     *)
(* lower-casing, suffix tests and the sorting of group keys are computed   *)
(* and not assumed.  Numbers are non-negative integers; the mean is kept   *)
(* as the exact fraction <<sum, count>>.                                   *)
(***************************************************************************)
EXTENDS Integers, Sequences, FiniteSets, TLC

VARIABLES df, metrics, op, ret, out, session

vars == <<df, metrics, op, ret, out, session>>

-----------------------------------------------------------------------------
(* Bounds of the model.                                                    *)

\* The largest number of data rows in an input file.
MaxRows == 2

-----------------------------------------------------------------------------
(* Values of the pandas / Python data model.                               *)

\* The null marker of a numeric column (every parsed number is >= 0).
NaN == -1

\* The null marker of a datetime column; a date is <<year, month, day>>.
NaT == <<>>

\* pd.DataFrame(): a frame with no rows.
EmptyFrame == <<>>

\* {}: the dict with no keys.
EmptyDict == [k \in {} |-> 0]

\* None, and the empty string main() turns into None: both are falsy.
None == <<>>

-----------------------------------------------------------------------------
(* Text helpers.                                                           *)

IsDigit(c) == c \in 48..57

RECURSIVE DigitsValue(_)
\* The number written by a sequence of digit codes.
DigitsValue(s) ==
    IF s = <<>> THEN 0
    ELSE 10 * DigitsValue(SubSeq(s, 1, Len(s) - 1)) + (s[Len(s)] - 48)

AllDigits(s) == \A i \in 1..Len(s) : IsDigit(s[i])

\* str.lower() on one code, and on a string.
LowerChar(c) == IF c \in 65..90 THEN c + 32 ELSE c

Lower(s) == SubSeq([i \in 1..Len(s) |-> LowerChar(s[i])], 1, Len(s))

\* str.endswith(suffix)
EndsWith(s, suffix) ==
    /\ Len(s) >= Len(suffix)
    /\ SubSeq(s, Len(s) - Len(suffix) + 1, Len(s)) = suffix

RECURSIVE StrLess(_, _)
\* The order Python gives strings: lexicographic on the codes.
StrLess(a, b) ==
    IF b = <<>> THEN FALSE
    ELSE IF a = <<>> THEN TRUE
    ELSE IF a[1] # b[1] THEN a[1] < b[1]
    ELSE StrLess(Tail(a), Tail(b))

-----------------------------------------------------------------------------
(* Parsing of cells.                                                       *)

IsLeap(y) == (y % 4 = 0 /\ y % 100 # 0) \/ y % 400 = 0

DaysInMonth(y, m) ==
    IF m = 2 THEN (IF IsLeap(y) THEN 29 ELSE 28)
    ELSE IF m \in {4, 6, 9, 11} THEN 30 ELSE 31

\* A date string YYYY-MM-DD naming a day of the calendar.
IsIsoDate(s) ==
    /\ Len(s) = 10
    /\ s[5] = 45 /\ s[8] = 45
    /\ \A i \in {1, 2, 3, 4, 6, 7, 9, 10} : IsDigit(s[i])
    /\ DigitsValue(SubSeq(s, 6, 7)) \in 1..12
    /\ DigitsValue(SubSeq(s, 9, 10)) \in
           1..DaysInMonth(DigitsValue(SubSeq(s, 1, 4)), DigitsValue(SubSeq(s, 6, 7)))

ParseDate(s) ==
    <<DigitsValue(SubSeq(s, 1, 4)), DigitsValue(SubSeq(s, 6, 7)),
      DigitsValue(SubSeq(s, 9, 10))>>

\* pd.to_datetime(cell, errors='coerce'): NaT where the cell is no date.
ToDatetimeCoerce(s) == IF IsIsoDate(s) THEN ParseDate(s) ELSE NaT

\* pd.to_numeric(cell, errors='coerce'): NaN where the cell is no number.
ToNumericCoerce(s) == IF s # <<>> /\ AllDigits(s) THEN DigitsValue(s) ELSE NaN

\* Timestamp comparison a <= b on <<year, month, day>>.
DateLeq(a, b) ==
    \/ a[1] < b[1]
    \/ a[1] = b[1] /\ a[2] < b[2]
    \/ a[1] = b[1] /\ a[2] = b[2] /\ a[3] <= b[3]

-----------------------------------------------------------------------------
(* The input: a path and what the file system holds at it.                 *)

\* required_columns of load_data.
RequiredColumns == {"Date", "Product", "Category", "Price", "Quantity Sold"}

\* "retail_sales.csv", the default of load_data and of main().
DefaultPath == <<114, 101, 116, 97, 105, 108, 95, 115, 97, 108, 101, 115, 46, 99, 115, 118>>

\* ".csv"
CsvSuffix == <<46, 99, 115, 118>>

\* The texts of the sample cells: "sales.csv", "sales.txt", "P1", "P2",
\* "Food", "FOOD", "Toys", "food", four dates (the last names no day of the
\* calendar), and the numbers "3", "5", "10", "15", "30" and the word "x".
CsvPath == <<115, 97, 108, 101, 115, 46, 99, 115, 118>>
TxtPath == <<115, 97, 108, 101, 115, 46, 116, 120, 116>>
StrP1 == <<80, 49>>
StrP2 == <<80, 50>>
StrFood == <<70, 111, 111, 100>>
StrFOOD == <<70, 79, 79, 68>>
StrToys == <<84, 111, 121, 115>>
StrFoodLower == <<102, 111, 111, 100>>
Jan01 == <<50, 48, 50, 52, 45, 48, 49, 45, 48, 49>>
Jan31 == <<50, 48, 50, 52, 45, 48, 49, 45, 51, 49>>
Feb01 == <<50, 48, 50, 52, 45, 48, 50, 45, 48, 49>>
Feb30 == <<50, 48, 50, 52, 45, 48, 50, 45, 51, 48>>
Txt3 == <<51>>
Txt5 == <<53>>
Txt10 == <<49, 48>>
Txt15 == <<49, 53>>
Txt30 == <<51, 48>>
TxtX == <<120>>

\* A sequence given by a rule, as the tuple of its elements.
Tuple(seq) == SubSeq(seq, 1, Len(seq))

RawRow(d, p, c, pr, q, t) ==
    [Date |-> d, Product |-> p, Category |-> c, Price |-> pr,
     QuantitySold |-> q, TotalSales |-> t]

\* The rows an input file is made of: three well-formed rows (the second
\* with a blank Total Sales cell), one whose Price is no number, one whose
\* Date is no date, and one whose Product cell is blank.
RawRows ==
    << RawRow(Jan01, StrP1, StrFood, Txt10, Txt3, Txt30),
       RawRow(Jan31, StrP2, StrFOOD, Txt5, Txt10, <<>>),
       RawRow(Feb01, StrP2, StrToys, Txt5, Txt3, Txt15),
       RawRow(Jan31, StrP1, StrFood, TxtX, Txt3, Txt30),
       RawRow(Feb30, StrP1, StrToys, Txt10, Txt3, Txt30),
       RawRow(Jan01, <<>>, StrFood, Txt10, Txt10, Txt30) >>

RECURSIVE ContentsOfLen(_)
\* Every sequence of n sample rows.
ContentsOfLen(n) ==
    IF n = 0 THEN << <<>> >>
    ELSE LET shorter == ContentsOfLen(n - 1)
         IN  Tuple([k \in 1..(Len(shorter) * Len(RawRows)) |->
                      Append(shorter[((k - 1) \div Len(RawRows)) + 1],
                             RawRows[((k - 1) % Len(RawRows)) + 1])])

RECURSIVE ContentsUpTo(_)
\* The rows of a file: at most n of the sample rows, in any order.
ContentsUpTo(n) ==
    IF n = 0 THEN ContentsOfLen(0) ELSE ContentsUpTo(n - 1) \o ContentsOfLen(n)

Contents == ContentsUpTo(MaxRows)

\* A row whose five required cells are present and well-typed.
WellFormed(raw) ==
    /\ \A c \in {raw.Date, raw.Product, raw.Category, raw.Price, raw.QuantitySold} :
          c # <<>>
    /\ IsIsoDate(raw.Date)
    /\ AllDigits(raw.Price)
    /\ AllDigits(raw.QuantitySold)

WellFormedContents ==
    SelectSeq(Contents, LAMBDA c : \A i \in 1..Len(c) : WellFormed(c[i]))

File(path, exists, columns, rows) ==
    [path |-> path, exists |-> exists, columns |-> columns, rows |-> rows]

\* What load_data may be given, numbered (an operation is given the number
\* of its input): a CSV file without a Total Sales column, a CSV file of
\* well-formed rows with one, a path that does not exist, a file that is no
\* CSV file, a CSV file whose header lacks Price, and a file at the default
\* path.
InputList ==
    Tuple([i \in 1..Len(Contents) |->
             File(CsvPath, TRUE, RequiredColumns, Contents[i])])
    \o Tuple([i \in 1..Len(WellFormedContents) |->
                File(CsvPath, TRUE, RequiredColumns \cup {"Total Sales"},
                     WellFormedContents[i])])
    \o << File(CsvPath, FALSE, {}, <<>>),
          File(TxtPath, TRUE, RequiredColumns, <<>>),
          File(CsvPath, TRUE, RequiredColumns \ {"Price"}, <<>>),
          File(DefaultPath, TRUE, RequiredColumns, <<>>) >>

Inputs == 1..Len(InputList)

\* The inputs that may lie at a path.
FilesAt(path) == { i \in Inputs : InputList[i].path = path }

-----------------------------------------------------------------------------
(* load_data.                                                              *)

\* The value of a row in the column named col.
Cell(row, col) ==
    CASE col = "Date" -> row.Date
      [] col = "Product" -> row.Product
      [] col = "Category" -> row.Category
      [] col = "Price" -> row.Price
      [] col = "Quantity Sold" -> row.QuantitySold
      [] col = "Total Sales" -> row.TotalSales

\* isna() on a text or datetime cell (a blank cell is read as null), and on
\* a numeric cell.
IsNullText(v) == v = <<>>

IsNullNumber(v) == v = NaN

\* pd.read_csv: the rows of the file in file order.  The five required
\* columns are read as text with blank cells null; a Total Sales column is
\* read as numbers with blank cells null.
ReadCsv(file) ==
    Tuple([i \in 1..Len(file.rows) |->
        [file.rows[i] EXCEPT !.TotalSales =
            IF "Total Sales" \in file.columns THEN ToNumericCoerce(@) ELSE NaN]])

\* missing_cols
MissingCols(file) == RequiredColumns \ file.columns

\* df.dropna(subset=required_columns), on the columns as read.
DropNaRequired(rows) ==
    SelectSeq(rows, LAMBDA r : \A c \in RequiredColumns : ~IsNullText(Cell(r, c)))

\* ConvertTypes with a Price that is no number filled with zero.
ConvertTypesZeroFill(rows) ==
    Tuple([i \in 1..Len(rows) |->
        [rows[i] EXCEPT !.Date = ToDatetimeCoerce(@),
                        !.Price = IF ToNumericCoerce(@) = NaN THEN 0
                                  ELSE ToNumericCoerce(@),
                        !.QuantitySold = ToNumericCoerce(@)]])

\* The three type conversions, each with errors='coerce'.
ConvertTypes(rows) ==
    Tuple([i \in 1..Len(rows) |->
        [rows[i] EXCEPT !.Date = ToDatetimeCoerce(@),
                        !.Price = ToNumericCoerce(@),
                        !.QuantitySold = ToNumericCoerce(@)]])

\* df.dropna(subset=['Date', 'Price', 'Quantity Sold']), after conversion.
DropNaConverted(rows) ==
    SelectSeq(rows, LAMBDA r : /\ ~IsNullText(r.Date)
                               /\ ~IsNullNumber(r.Price)
                               /\ ~IsNullNumber(r.QuantitySold))

\* GenerateTotalSales with its test inverted.
GenerateTotalSalesInverted(file, rows) ==
    IF "Total Sales" \in file.columns
    THEN Tuple([i \in 1..Len(rows) |->
            [rows[i] EXCEPT !.TotalSales = rows[i].Price * rows[i].QuantitySold]])
    ELSE rows

\* Total Sales = Price * Quantity Sold, when the file has no such column.
GenerateTotalSales(file, rows) ==
    IF "Total Sales" \notin file.columns
    THEN Tuple([i \in 1..Len(rows) |->
            [rows[i] EXCEPT !.TotalSales = rows[i].Price * rows[i].QuantitySold]])
    ELSE rows

\* The cleaning of a frame that passed the schema check.
CleanFrame(file) ==
    LET present == DropNaRequired(ReadCsv(file))
        typed   == ConvertTypes(present)
        valid   == DropNaConverted(typed)
    IN  GenerateTotalSales(file, valid)

\* CleanFrame of every input, computed once.
CleanFrames == Tuple([i \in Inputs |-> CleanFrame(InputList[i])])

\* load_data(file_path) on a session whose Dataset is d: the Dataset it
\* leaves and the value it returns.
load_data(input, d) ==
    LET file == InputList[input] IN
    IF ~file.exists \/ ~EndsWith(file.path, CsvSuffix)
    THEN [df |-> d, ret |-> FALSE,
          out |-> "Error: File not found or is not a CSV file"]
    ELSE IF MissingCols(file) # {}
    THEN [df |-> EmptyFrame, ret |-> FALSE, out |-> "Error: CSV missing columns"]
    ELSE [df |-> CleanFrames[input], ret |-> TRUE,
          out |-> "Data loaded and processed successfully."]

-----------------------------------------------------------------------------
(* calculate_metrics and display_summary.                                  *)

\* df.empty
IsEmpty(d) == Len(d) = 0

RECURSIVE SumSkipNa(_)
\* Series.sum(), which np.sum calls: the nulls are skipped.
SumSkipNa(values) ==
    IF values = <<>> THEN 0
    ELSE (IF IsNullNumber(Head(values)) THEN 0 ELSE Head(values)) + SumSkipNa(Tail(values))

\* Series.mean(), which np.mean calls: the sum of the non-null values over
\* their number, kept as the fraction <<sum, count>> (count 0: the mean of
\* no value, NaN).
MeanSkipNa(values) ==
    <<SumSkipNa(values), Len(SelectSeq(values, LAMBDA v : ~IsNullNumber(v)))>>

Column(d, col) == Tuple([i \in 1..Len(d) |-> Cell(d[i], col)])

RECURSIVE SortKeys(_)
\* The keys of a set of strings in ascending order.
SortKeys(keys) ==
    IF keys = {} THEN <<>>
    ELSE LET least == CHOOSE k \in keys : \A j \in keys \ {k} : StrLess(k, j)
         IN  <<least>> \o SortKeys(keys \ {least})

RECURSIVE FirstSeen(_)
\* groupby(sort=False): the keys in the order of their first rows.
FirstSeen(products) ==
    IF products = <<>> THEN <<>>
    ELSE LET before == FirstSeen(SubSeq(products, 1, Len(products) - 1))
             last   == products[Len(products)]
         IN  IF \E i \in 1..Len(before) : before[i] = last
             THEN before ELSE Append(before, last)

GroupKeysUnsorted(d) == FirstSeen(Column(d, "Product"))

\* df.groupby('Product'): the group keys, sorted (sort=True is the default).
GroupKeys(d) == SortKeys({d[i].Product : i \in 1..Len(d)})

\* groupby('Product')['Quantity Sold'].sum(): one sum per key, in key order.
GroupSums(d) ==
    LET keys == GroupKeys(d)
    IN  [k \in 1..Len(keys) |->
            SumSkipNa(Column(SelectSeq(d, LAMBDA r : r.Product = keys[k]),
                             "Quantity Sold"))]

\* Series.idxmax(): the label of the first occurrence of the maximum.
IdxMax(keys, sums) ==
    keys[CHOOSE k \in 1..Len(keys) :
            /\ \A j \in 1..Len(keys) : sums[j] <= sums[k]
            /\ \A j \in 1..(k - 1) : sums[j] < sums[k]]

\* The dict calculate_metrics builds from a non-empty Dataset.
ComputeMetrics(d) ==
    LET totals == Column(d, "Total Sales")
        keys   == GroupKeys(d)
        sums   == GroupSums(d)
    IN  [TotalSales |-> SumSkipNa(totals),
         AverageSaleValue |-> MeanSkipNa(totals),
         MostPopularProduct |-> IdxMax(keys, sums)]

\* calculate_metrics returning self.metrics on an empty Dataset.
calculate_metrics_stale(d, m) ==
    IF IsEmpty(d)
    THEN [metrics |-> m, ret |-> m, out |-> "No data loaded to calculate metrics."]
    ELSE LET computed == ComputeMetrics(d)
         IN  [metrics |-> computed, ret |-> computed, out |-> ""]

\* calculate_metrics() on a session holding Dataset d and snapshot m: the
\* snapshot it leaves and the value it returns.
calculate_metrics(d, m) ==
    IF IsEmpty(d)
    THEN [metrics |-> m, ret |-> EmptyDict,
          out |-> "No data loaded to calculate metrics."]
    ELSE LET computed == ComputeMetrics(d)
         IN  [metrics |-> computed, ret |-> computed, out |-> ""]

\* `not self.metrics`: a dict is falsy when it has no key.
IsFalsyDict(m) == DOMAIN m = {}

\* display_summary(): the snapshot it leaves and what it prints.
display_summary(d, m) ==
    IF IsEmpty(d)
    THEN [metrics |-> m, out |-> "No data loaded. Please load data first.",
          shown |-> EmptyDict]
    ELSE LET now == IF IsFalsyDict(m) THEN calculate_metrics(d, m).metrics ELSE m
         IN  [metrics |-> now, out |-> "--- Retail Analysis Summary ---",
              shown |-> now]

-----------------------------------------------------------------------------
(* The operations on one RetailAnalyzer.  Each action is one call: `op` is *)
(* the call and its argument, `ret` the value returned, `out` what was     *)
(* printed (and the snapshot a summary showed).  An action binds the       *)
(* result of the call once, as the one element of a set.                   *)

\* __init__, and a session at its first prompt.
Init ==
    /\ df = EmptyFrame
    /\ metrics = EmptyDict
    /\ op = [name |-> "__init__", args |-> None]
    /\ ret = None
    /\ out = [msg |-> "", shown |-> EmptyDict]
    /\ session = "running"

LoadData(input) ==
    \E r \in {load_data(input, df)} :
        /\ session = "running"
        /\ df' = r.df
        /\ ret' = r.ret
        /\ out' = [msg |-> r.out, shown |-> EmptyDict]
        /\ op' = [name |-> "load_data", args |-> input]
        /\ UNCHANGED <<metrics, session>>

CalculateMetrics ==
    \E r \in {calculate_metrics(df, metrics)} :
        /\ session = "running"
        /\ metrics' = r.metrics
        /\ ret' = r.ret
        /\ out' = [msg |-> r.out, shown |-> EmptyDict]
        /\ op' = [name |-> "calculate_metrics", args |-> None]
        /\ UNCHANGED <<df, session>>

DisplaySummary ==
    \E r \in {display_summary(df, metrics)} :
        /\ session = "running"
        /\ metrics' = r.metrics
        /\ ret' = None
        /\ out' = [msg |-> r.out, shown |-> r.shown]
        /\ op' = [name |-> "display_summary", args |-> None]
        /\ UNCHANGED <<df, session>>

\* Any sequence of load_data, calculate_metrics and display_summary calls.
Next ==
    \/ \E input \in Inputs : LoadData(input)
    \/ CalculateMetrics
    \/ DisplaySummary

Spec == Init /\ [][Next]_vars

-----------------------------------------------------------------------------
(* filter_data.                                                            *)

\* pd.to_datetime(text) without errors='coerce' raises on a text that is no
\* date.
ToDatetimeRaises(s) == ~IsIsoDate(s)

\* filtered_df[filtered_df['Category'].str.lower() == category.lower()]
FilterCategory(rows, category) ==
    SelectSeq(rows, LAMBDA r : Lower(r.Category) = Lower(category))

\* FilterStart with > for >=.
FilterStartExclusive(rows, start_date) ==
    SelectSeq(rows, LAMBDA r : /\ DateLeq(ParseDate(start_date), r.Date)
                               /\ ParseDate(start_date) # r.Date)

\* filtered_df[filtered_df['Date'] >= pd.to_datetime(start_date)]
FilterStart(rows, start_date) ==
    SelectSeq(rows, LAMBDA r : DateLeq(ParseDate(start_date), r.Date))

\* filtered_df[filtered_df['Date'] <= pd.to_datetime(end_date)]
FilterEnd(rows, end_date) ==
    SelectSeq(rows, LAMBDA r : DateLeq(r.Date, ParseDate(end_date)))

\* filter_data(category, start_date, end_date) on Dataset d: the frame it
\* returns, or the exception that leaves it.
filter_data(d, category, start_date, end_date) ==
    IF IsEmpty(d)
    THEN [raised |-> "", frame |-> EmptyFrame, out |-> "No data loaded to filter."]
    ELSE LET byCategory == IF category # None THEN FilterCategory(d, category) ELSE d
         IN  IF start_date # None /\ ToDatetimeRaises(start_date)
             THEN [raised |-> "ValueError", frame |-> EmptyFrame, out |-> ""]
             ELSE LET byStart == IF start_date # None
                                 THEN FilterStart(byCategory, start_date)
                                 ELSE byCategory
                  IN  IF end_date # None /\ ToDatetimeRaises(end_date)
                      THEN [raised |-> "ValueError", frame |-> EmptyFrame, out |-> ""]
                      ELSE [raised |-> "",
                            frame |-> IF end_date # None
                                      THEN FilterEnd(byStart, end_date)
                                      ELSE byStart,
                            out |-> ""]

-----------------------------------------------------------------------------
(* main(): the menu loop.                                                  *)

\* What the user may type at the path prompt (Enter alone: the default).
TypedPaths == {<<>>, CsvPath, TxtPath}

\* What the user may type at the three prompts of option 3 (Enter alone:
\* no filter): "food"; 2024-01-31 and 2024-02-30, which is no date.
TypedCategories == {<<>>, StrFoodLower}

TypedDates == {<<>>, Jan31, Feb30}

\* `if not file_path: file_path = "retail_sales.csv"`
ResolvePath(typed) == IF typed = <<>> THEN DefaultPath ELSE typed

\* The inputs that may lie at the path a typed text names.
InputsAt == [typed \in TypedPaths |-> FilesAt(ResolvePath(typed))]

\* Option 1 without the call of calculate_metrics.
main_load_only(input, d, m) ==
    LET r == load_data(input, d)
    IN  [df |-> r.df, metrics |-> m, ret |-> r.ret, out |-> r.out]

\* Option 1: load_data, and calculate_metrics when it succeeded.
main_load(input, d, m) ==
    LET r == load_data(input, d)
        c == calculate_metrics(r.df, m)
    IN  IF r.ret
        THEN [df |-> r.df, metrics |-> c.metrics, ret |-> r.ret,
              out |-> IF c.out # "" THEN c.out ELSE r.out]
        ELSE [df |-> r.df, metrics |-> m, ret |-> r.ret, out |-> r.out]

Choice1(typed, input) ==
    \E r \in {main_load(input, df, metrics)} :
        /\ session = "running"
        /\ InputList[input].path = ResolvePath(typed)
        /\ df' = r.df
        /\ metrics' = r.metrics
        /\ ret' = r.ret
        /\ out' = [msg |-> r.out, shown |-> EmptyDict]
        /\ op' = [name |-> "1", args |-> input]
        /\ UNCHANGED session

Choice2 ==
    \E r \in {display_summary(df, metrics)} :
        /\ session = "running"
        /\ metrics' = r.metrics
        /\ ret' = None
        /\ out' = [msg |-> r.out, shown |-> r.shown]
        /\ op' = [name |-> "2", args |-> None]
        /\ UNCHANGED <<df, session>>

\* Option 3 on an empty Dataset: a message, and back to the menu.
Choice3Empty ==
    /\ session = "running"
    /\ IsEmpty(df)
    /\ ret' = None
    /\ out' = [msg |-> "Please load data first (Option 1).", shown |-> EmptyDict]
    /\ op' = [name |-> "3 (no data)", args |-> None]
    /\ UNCHANGED <<df, metrics, session>>

\* Option 3 on a Dataset: the three prompts, then filter_data.  Nothing
\* catches an exception of filter_data: it ends the process.
Choice3(category, start_date, end_date) ==
    \E r \in {filter_data(df, category, start_date, end_date)} :
        /\ session = "running"
        /\ ~IsEmpty(df)
        /\ ret' = r
        /\ session' = IF r.raised # "" THEN "crashed" ELSE "running"
        /\ out' = [msg |-> IF r.raised # "" THEN "Traceback"
                           ELSE IF IsEmpty(r.frame)
                           THEN "No results found for the given criteria."
                           ELSE "Filtered Sales Data:",
                   shown |-> EmptyDict]
        /\ op' = [name |-> "3",
                  args |-> [category |-> category, start_date |-> start_date,
                            end_date |-> end_date]]
        /\ UNCHANGED <<df, metrics>>

\* Option 4: visualize_data draws from the Dataset and changes nothing.
Choice4 ==
    /\ session = "running"
    /\ ret' = None
    /\ out' = [msg |-> IF IsEmpty(df) THEN "No data available for visualization."
                       ELSE "Retail Sales Analysis Dashboard",
               shown |-> EmptyDict]
    /\ op' = [name |-> "4", args |-> None]
    /\ UNCHANGED <<df, metrics, session>>

Choice5 ==
    /\ session = "running"
    /\ session' = "exited"
    /\ ret' = None
    /\ out' = [msg |-> "Exiting the Retail Sales Analyzer. Goodbye!",
               shown |-> EmptyDict]
    /\ op' = [name |-> "5", args |-> None]
    /\ UNCHANGED <<df, metrics>>

ChoiceInvalid ==
    /\ session = "running"
    /\ ret' = None
    /\ out' = [msg |-> "Invalid choice. Please enter a number between 1 and 5.",
               shown |-> EmptyDict]
    /\ op' = [name |-> "other", args |-> None]
    /\ UNCHANGED <<df, metrics, session>>

MainNext ==
    \/ \E typed \in TypedPaths : \E input \in InputsAt[typed] :
          Choice1(typed, input)
    \/ Choice2
    \/ Choice3Empty
    \/ \E category \in TypedCategories : \E start_date, end_date \in TypedDates :
          Choice3(category, start_date, end_date)
    \/ Choice4
    \/ Choice5
    \/ ChoiceInvalid

MainSpec == Init /\ [][MainNext]_vars

-----------------------------------------------------------------------------
(* The claims.                                                             *)

SummaryPrinted == out.msg = "--- Retail Analysis Summary ---"

\* C1: whenever load_data fails, the Dataset is empty afterwards, also when
\* an earlier load had left a Dataset.
C1_FailedLoadLeavesEmptyDataset ==
    (op.name = "load_data" /\ ret = FALSE) => IsEmpty(df)

\* C2: a filter request whose start_date or end_date is no date is reported
\* and the session loop continues: the process does not end.
C2_BadFilterDateKeepsSessionRunning ==
    (/\ op.name = "3"
     /\ \/ (op.args.start_date # None /\ ~IsIsoDate(op.args.start_date))
        \/ (op.args.end_date # None /\ ~IsIsoDate(op.args.end_date)))
    => session = "running"

\* C3: after any sequence of load_data, calculate_metrics and
\* display_summary calls, the snapshot display_summary reports for a
\* non-empty Dataset is the one computed from the current Dataset.
C3_SummaryIsOfCurrentDataset ==
    (op.name = "display_summary" /\ ~IsEmpty(df)) => out.shown = ComputeMetrics(df)

\* The rows of a file whose five required cells are present and well-typed,
\* in file order.
ValidRows(file) == SelectSeq(file.rows, WellFormed)

\* C4: after a successful load_data the Dataset is exactly the rows of the
\* file, in file order, whose five required cells are present and whose
\* Date, Price and Quantity Sold parse; each retained row carries the values
\* of its own cells, none replaced by a default.
C4_LoadKeepsExactlyTheValidRows ==
    (op.name = "1" /\ ret = TRUE) =>
        LET valid == ValidRows(InputList[op.args])
        IN  /\ Len(df) = Len(valid)
            /\ \A i \in 1..Len(valid) :
                  /\ df[i].Date = ParseDate(valid[i].Date)
                  /\ df[i].Product = valid[i].Product
                  /\ df[i].Category = valid[i].Category
                  /\ df[i].Price = DigitsValue(valid[i].Price)
                  /\ df[i].QuantitySold = DigitsValue(valid[i].QuantitySold)

\* A successful load that kept a row and dropped a row.
C4_Witness ==
    /\ op.name = "1" /\ ret = TRUE
    /\ Len(df) >= 1
    /\ Len(df) < Len(InputList[op.args].rows)

\* C5: after a successful load_data of a file with no Total Sales column,
\* every retained row has Total Sales = Price * Quantity Sold.
C5_TotalSalesIsPriceTimesQuantity ==
    (/\ op.name = "1" /\ ret = TRUE
     /\ "Total Sales" \notin InputList[op.args].columns)
    => \A i \in 1..Len(df) : df[i].TotalSales = df[i].Price * df[i].QuantitySold

\* A successful load of a file with no Total Sales column that kept a row.
C5_Witness ==
    /\ op.name = "1" /\ ret = TRUE
    /\ "Total Sales" \notin InputList[op.args].columns
    /\ Len(df) >= 1

\* Equality of two texts up to the case of their letters.
SameIgnoringCase(a, b) ==
    /\ Len(a) = Len(b)
    /\ \A i \in 1..Len(a) : LowerChar(a[i]) = LowerChar(b[i])

\* A row satisfies every predicate that was supplied.
Satisfies(row, args) ==
    /\ args.category # None => SameIgnoringCase(row.Category, args.category)
    /\ args.start_date # None =>
          (row.Date = ParseDate(args.start_date)
             \/ ~DateLeq(row.Date, ParseDate(args.start_date)))
    /\ args.end_date # None =>
          (row.Date = ParseDate(args.end_date)
             \/ ~DateLeq(ParseDate(args.end_date), row.Date))

\* C6: on a non-empty Dataset filter_data returns exactly the rows that
\* satisfy all supplied predicates, in Dataset order: category compared
\* without regard to case, start_date and end_date as inclusive bounds, an
\* omitted predicate constraining nothing.
C6_FilterReturnsExactlyTheMatchingRows ==
    (op.name = "3" /\ ret.raised = "") =>
        ret.frame = SelectSeq(df, LAMBDA row : Satisfies(row, op.args))

\* A filter by category and by a start date that some row of the Dataset
\* lies exactly on, which kept that row and dropped another.
C6_Witness ==
    /\ op.name = "3" /\ ret.raised = ""
    /\ op.args.category # None /\ op.args.start_date # None
    /\ \E i \in 1..Len(ret.frame) : ret.frame[i].Date = ParseDate(op.args.start_date)
    /\ Len(ret.frame) < Len(df)

\* C7: for every non-empty Dataset calculate_metrics returns a snapshot in
\* which Average Sale Value is the Total Sales sum divided by the number of
\* rows, and Most Popular Product is a product whose summed Quantity Sold
\* is the largest of any product.
C7_MetricsAreSumMeanAndMostSold ==
    (op.name = "calculate_metrics" /\ ~IsEmpty(df)) =>
        /\ ret.AverageSaleValue[1] * Len(df) = ret.TotalSales * ret.AverageSaleValue[2]
        /\ ret.AverageSaleValue[2] # 0
        /\ \E i \in 1..Len(df) : df[i].Product = ret.MostPopularProduct
        /\ \A i \in 1..Len(df) :
              SumSkipNa(Column(SelectSeq(df, LAMBDA r : r.Product = df[i].Product),
                               "Quantity Sold"))
              <= SumSkipNa(Column(SelectSeq(df, LAMBDA r :
                                      r.Product = ret.MostPopularProduct),
                                  "Quantity Sold"))

\* The Quantity Sold of a product, summed over its rows.
QuantityOf(d, product) ==
    SumSkipNa(Column(SelectSeq(d, LAMBDA r : r.Product = product), "Quantity Sold"))

\* The products whose summed Quantity Sold is the largest.
TopProducts(d) ==
    { d[i].Product : i \in { k \in 1..Len(d) :
        \A j \in 1..Len(d) : QuantityOf(d, d[j].Product) <= QuantityOf(d, d[k].Product) } }

\* The index of the first row of a product.
FirstRow(d, product) ==
    CHOOSE i \in 1..Len(d) :
        /\ d[i].Product = product
        /\ \A j \in 1..(i - 1) : d[j].Product # product

\* C8 (as claimed): among the products that share the largest summed
\* Quantity Sold, calculate_metrics reports the one whose first row comes
\* earliest in the Dataset.
C8_TieGoesToFirstRow ==
    (op.name = "calculate_metrics" /\ ~IsEmpty(df)) =>
        \A p \in TopProducts(df) :
            FirstRow(df, ret.MostPopularProduct) <= FirstRow(df, p)

\* C8 (amended): among the products that share the largest summed Quantity
\* Sold, calculate_metrics reports the one whose name sorts first.
C8_TieGoesToLeastName ==
    (op.name = "calculate_metrics" /\ ~IsEmpty(df)) =>
        /\ ret.MostPopularProduct \in TopProducts(df)
        /\ \A p \in TopProducts(df) \ {ret.MostPopularProduct} :
              StrLess(ret.MostPopularProduct, p)

\* calculate_metrics on a Dataset in which two products tie and the one
\* that sorts first comes second.
C8_Witness ==
    /\ op.name = "calculate_metrics" /\ ~IsEmpty(df)
    /\ Cardinality(TopProducts(df)) >= 2
    /\ FirstRow(df, ret.MostPopularProduct) > 1

\* C9: calculate_metrics on an empty Dataset returns an empty snapshot
\* without raising, leaves the Dataset (and the stored snapshot) unchanged,
\* and the session goes on.
C9_EmptyDatasetGivesEmptySnapshot ==
    [][(op'.name = "calculate_metrics" /\ IsEmpty(df)) =>
          /\ ret' = EmptyDict
          /\ df' = df
          /\ metrics' = metrics
          /\ session' = "running"]_vars

\* calculate_metrics returned the empty snapshot on a Dataset that a later
\* load had emptied after an earlier load was measured.
C9_Witness ==
    /\ op.name = "calculate_metrics"
    /\ IsEmpty(df)
    /\ ret = EmptyDict
    /\ metrics # EmptyDict

\* C10: in the menu loop, whenever option 2 prints a summary, the printed
\* metrics are those of the Dataset held at that moment.
C10_MenuSummaryIsOfCurrentDataset ==
    (op.name = "2" /\ SummaryPrinted) =>
        /\ ~IsEmpty(df)
        /\ out.shown = ComputeMetrics(df)

\* Option 2 printed a summary of a Dataset.
C10_Witness ==
    /\ op.name = "2" /\ SummaryPrinted
    /\ Len(df) >= 2

=============================================================================
